---- MODULE Spec2Model ----
(***************************************************************************)
(* Model of the Scratchpad extension                                       *)
(* (src/src/contrib/extensions/scratchpad.rs): the three shared cells      *)
(* client / pending / visible, the toggle action and the three hooks       *)
(* new_client, remove_client and layout_applied, together with the         *)
(* commands they send to the window manager.                               *)
(*                                                                         *)
(* The window manager runs one handler at a time, so each handler is one   *)
(* atomic action.  `calls` is the list of commands the last handler sent,  *)
(* `last` records which handler ran, with which arguments and from which   *)
(* state, and `spawns` counts every spawn since construction.  `geo`       *)
(* records the arguments and the outcome of the constructors and of        *)
(* get_position when they are run on their own (GeomSpec).                 *)
(***************************************************************************)
EXTENDS Integers, Sequences, FiniteSets

VARIABLES client, pending, visible, anchor, w, h, calls, spawns, last, geo

vars == <<client, pending, visible, anchor, w, h, calls, spawns, last, geo>>

(***************************************************************************)
(* Bounds of the model.                                                    *)
(***************************************************************************)
MaxWinId == 3
MaxSpawns == 3

(***************************************************************************)
(* Option<T>: None is the empty sequence, Some(x) the one-element one.     *)
(***************************************************************************)
None == <<>>
Some(x) == <<x>>

WinId == 1..MaxWinId

prog == "alacritty"

(***************************************************************************)
(* AnchorPosition and Anchor::new, Scratchpad::new.                        *)
(***************************************************************************)
AnchorPosition == {"Top", "Center", "Bottom", "Left", "Right"}

AnchorNewPanics(horizontal, vertical) ==
    \/ horizontal = "Top" \/ horizontal = "Bottom"
    \/ vertical = "Left" \/ vertical = "Right"

\* An f32 fraction is written as the rational num/den; NaN is 0/0, and every
\* comparison with it is false.  4/5 stands for 0.8f32, whose products with
\* the screen sizes used here round to the same f32 as those of 4/5.
Fractions ==
    { [num |-> 0, den |-> 1], [num |-> 1, den |-> 2],
      [num |-> 4, den |-> 5], [num |-> 1, den |-> 1] }

Offsets == { <<0, 0>>, <<10, 5>> }

ScratchpadNewPanics(fw, fh) ==
    \/ fw.num < 0 \/ fw.num > fw.den
    \/ fh.num < 0 \/ fh.num > fh.den

Anchors ==
    { [horizontal |-> hp, vertical |-> vp, offset |-> o] :
        hp \in AnchorPosition, vp \in AnchorPosition, o \in Offsets }

(***************************************************************************)
(* The host: its screens, what screen_size answers and which screen is     *)
(* active.  Screen indices are 0-based.                                    *)
(***************************************************************************)
Region(x, y, rw, rh) == [x |-> x, y |-> y, w |-> rw, h |-> rh]

Screens == << Region(0, 0, 1000, 800), Region(1000, 0, 640, 480) >>

screen_size(screen_index) ==
    IF screen_index + 1 \in DOMAIN Screens
    THEN Some(Screens[screen_index + 1])
    ELSE None

\* the values wm.active_screen_index() can return
ActiveScreenIndices == { i - 1 : i \in DOMAIN Screens }

\* the screen_index arguments of layout_applied: one of them has no screen
ScreenIndices == 0..Len(Screens)

(***************************************************************************)
(* Scratchpad::get_position                                                *)
(***************************************************************************)
\* f32 arithmetic on non-negative rationals p/q: an f32 keeps 24 significant
\* bits and rounds to the nearest value, ties to the even one.
RECURSIVE FloorLog2(_)
FloorLog2(n) == IF n <= 1 THEN 0 ELSE 1 + FloorLog2(n \div 2)

RECURSIVE CeilLog2Ratio(_, _)
\* the least k with p * 2^k >= q, for 0 < p
CeilLog2Ratio(p, q) == IF p >= q THEN 0 ELSE 1 + CeilLog2Ratio(2 * p, q)

RoundHalfEven(p, q) ==
    LET d == p \div q
        r == p % q
    IN  IF 2 * r < q THEN d
        ELSE IF 2 * r > q THEN d + 1
        ELSE IF d % 2 = 0 THEN d ELSE d + 1

\* (p/q rounded to f32) as u32: the rounded value, truncated
F32AsU32(p, q) ==
    IF p = 0 THEN 0
    ELSE LET e == IF p >= q THEN FloorLog2(p \div q) ELSE 0 - CeilLog2Ratio(p, q)
         IN  IF e >= 23
             THEN RoundHalfEven(p, q * 2^(e - 23)) * 2^(e - 23)
             ELSE RoundHalfEven(p * 2^(23 - e), q) \div 2^(23 - e)

\* n as f32, for a u32 n: an integer again
U32AsF32(n) == F32AsU32(n, 1)

\* (len as f32 * f) as u32; a NaN product casts to 0
Scale(len, f) ==
    IF f.den = 0 THEN 0 ELSE F32AsU32(U32AsF32(len) * f.num, f.den)

\* True when a subtraction in get_position goes below zero: sw - w or
\* sh - h, for the Right, Bottom and Center anchors.
get_position_underflows(a, fw, fh, screen) ==
    \/ a.horizontal \in {"Right", "Center"} /\ Scale(screen.w, fw) > screen.w
    \/ a.vertical \in {"Bottom", "Center"} /\ Scale(screen.h, fh) > screen.h

get_position(a, fw, fh, screen) ==
    LET sx == screen.x
        sy == screen.y
        sw == screen.w
        sh == screen.h
        pw == Scale(sw, fw)
        ph == Scale(sh, fh)
        px == (CASE a.horizontal = "Left" -> sx
                 [] a.horizontal = "Right" -> sx + sw - pw
                 [] a.horizontal = "Center" -> sx + (sw - pw) \div 2)
              + a.offset[1]
        py == (CASE a.vertical = "Top" -> sy
                 [] a.vertical = "Bottom" -> sy + sh - ph
                 [] a.vertical = "Center" -> sy + (sh - ph) \div 2)
              + a.offset[2]
    IN  Region(px, py, pw, ph)

(***************************************************************************)
(* Commands sent to the host.                                              *)
(***************************************************************************)
NoRegion == <<>>

SpawnCall(p) == [cmd |-> "spawn", prog |-> p, id |-> None, region |-> NoRegion]
HideCall(id) == [cmd |-> "hide", prog |-> "", id |-> Some(id), region |-> NoRegion]
ShowCall(id) == [cmd |-> "show", prog |-> "", id |-> Some(id), region |-> NoRegion]
PositionCall(id, r) ==
    [cmd |-> "position", prog |-> "", id |-> Some(id), region |-> <<r>>]
ExternallyManagedCall(id) ==
    [cmd |-> "externally_managed", prog |-> "", id |-> Some(id), region |-> NoRegion]

(***************************************************************************)
(* The handlers, as functions of the scratchpad                            *)
(* s = [client, pending, visible, anchor, w, h, calls, spawns].            *)
(***************************************************************************)
\* layout_applied that positions the client but forgets to show it
layout_applied_NoShow(s, screen_index) ==
    IF s.client = None
    THEN s
    ELSE LET id == s.client[1] IN
         IF s.visible
         THEN LET region == screen_size(screen_index) IN
              IF region # None
              THEN [s EXCEPT !.calls = Append(@,
                      PositionCall(id, get_position(s.anchor, s.w, s.h, region[1])))]
              ELSE s
         ELSE s

\* layout_applied that does not look at visible
layout_applied_NoVisibleCheck(s, screen_index) ==
    IF s.client = None
    THEN s
    ELSE LET id == s.client[1]
             region == screen_size(screen_index)
             positioned ==
                 IF region # None
                 THEN Append(s.calls,
                        PositionCall(id, get_position(s.anchor, s.w, s.h, region[1])))
                 ELSE s.calls
         IN  [s EXCEPT !.calls = Append(positioned, ShowCall(id))]

\* layout_applied that falls back to the first screen when the index has none
layout_applied_DefaultScreen(s, screen_index) ==
    IF s.client = None
    THEN s
    ELSE LET id == s.client[1] IN
         IF s.visible
         THEN LET region == screen_size(screen_index)
                  used == IF region # None THEN region[1] ELSE Screens[1]
              IN  [s EXCEPT !.calls =
                      Append(Append(@,
                          PositionCall(id, get_position(s.anchor, s.w, s.h, used))),
                        ShowCall(id))]
         ELSE s

layout_applied(s, screen_index) ==
    IF s.client = None
    THEN s
    ELSE LET id == s.client[1] IN
         IF s.visible
         THEN LET region == screen_size(screen_index)
                  positioned ==
                      IF region # None
                      THEN Append(s.calls,
                             PositionCall(id, get_position(s.anchor, s.w, s.h, region[1])))
                      ELSE s.calls
              IN  [s EXCEPT !.calls = Append(positioned, ShowCall(id))]
         ELSE s

\* WindowManager::layout_screen: lays the screen out and runs the
\* layout_applied hooks for it.
layout_screen(s, screen_index) == layout_applied(s, screen_index)

\* toggle_client that forgets pending.replace(true)
toggle_client_NoPending(s, active) ==
    IF s.client = None
    THEN [s EXCEPT !.visible = FALSE,
                   !.calls = Append(@, SpawnCall(prog)),
                   !.spawns = @ + 1]
    ELSE LET id == s.client[1] IN
         IF s.visible
         THEN [s EXCEPT !.visible = FALSE,
                        !.calls = Append(@, HideCall(id))]
         ELSE layout_screen([s EXCEPT !.visible = TRUE], active)

\* toggle_client that spawns whenever the client is not visible
toggle_client_SpawnHidden(s, active) ==
    IF s.client = None \/ ~s.visible
    THEN [s EXCEPT !.pending = (s.client = None),
                   !.visible = (s.client # None),
                   !.calls = Append(@, SpawnCall(prog)),
                   !.spawns = @ + 1]
    ELSE [s EXCEPT !.visible = FALSE,
                   !.calls = Append(@, HideCall(s.client[1]))]

\* toggle_client that hides the client but leaves visible set
toggle_client_StaysVisible(s, active) ==
    IF s.client = None
    THEN [s EXCEPT !.pending = TRUE,
                   !.visible = FALSE,
                   !.calls = Append(@, SpawnCall(prog)),
                   !.spawns = @ + 1]
    ELSE LET id == s.client[1] IN
         IF s.visible
         THEN [s EXCEPT !.calls = Append(@, HideCall(id))]
         ELSE layout_screen([s EXCEPT !.visible = TRUE], active)

toggle_client(s, active) ==
    IF s.client = None
    THEN [s EXCEPT !.pending = TRUE,
                   !.visible = FALSE,
                   !.calls = Append(@, SpawnCall(prog)),
                   !.spawns = @ + 1]
    ELSE LET id == s.client[1] IN
         IF s.visible
         THEN [s EXCEPT !.visible = FALSE,
                        !.calls = Append(@, HideCall(id))]
         ELSE layout_screen([s EXCEPT !.visible = TRUE], active)

\* new_client that does not mark the client as externally managed
new_client_NotExternal(s, id, active) ==
    IF s.pending /\ s.client = None
    THEN toggle_client([s EXCEPT !.pending = FALSE, !.client = Some(id)], active)
    ELSE s

\* new_client that claims a client whenever none is tracked
new_client_NoPendingCheck(s, id, active) ==
    IF s.client = None
    THEN toggle_client(
           [s EXCEPT !.pending = FALSE,
                     !.client = Some(id),
                     !.calls = Append(@, ExternallyManagedCall(id))],
           active)
    ELSE s

\* new_client that shows every new client once one is tracked
new_client_ShowsAny(s, id, active) ==
    IF s.pending /\ s.client = None
    THEN toggle_client(
           [s EXCEPT !.pending = FALSE,
                     !.client = Some(id),
                     !.calls = Append(@, ExternallyManagedCall(id))],
           active)
    ELSE IF s.client # None
         THEN [s EXCEPT !.calls = Append(@, ShowCall(id))]
         ELSE s

\* new_client that takes the new client in place of the tracked one
new_client_Replaces(s, id, active) ==
    IF s.pending \/ s.client # None
    THEN toggle_client(
           [s EXCEPT !.pending = FALSE,
                     !.client = Some(id),
                     !.visible = FALSE,
                     !.calls = Append(@, ExternallyManagedCall(id))],
           active)
    ELSE s

new_client(s, id, active) ==
    IF s.pending /\ s.client = None
    THEN toggle_client(
           [s EXCEPT !.pending = FALSE,
                     !.client = Some(id),
                     !.calls = Append(@, ExternallyManagedCall(id))],
           active)
    ELSE s

\* remove_client that forgets visible.replace(false)
remove_client_KeepsVisible(s, id) ==
    IF s.client = None
    THEN s
    ELSE IF id = s.client[1]
         THEN [s EXCEPT !.client = None]
         ELSE s

\* remove_client that drops the client whatever id was removed
remove_client_AnyId(s, id) ==
    IF s.client = None
    THEN s
    ELSE [s EXCEPT !.client = None, !.visible = FALSE]

\* remove_client that hides the client but keeps tracking it
remove_client_KeepsClient(s, id) ==
    IF s.client = None
    THEN s
    ELSE IF id = s.client[1]
         THEN [s EXCEPT !.visible = FALSE]
         ELSE s

\* remove_client that gives up the outstanding spawn when no client is tracked
remove_client_ClearsPending(s, id) ==
    IF s.client = None
    THEN [s EXCEPT !.pending = FALSE]
    ELSE IF id = s.client[1]
         THEN [s EXCEPT !.client = None, !.visible = FALSE]
         ELSE s

remove_client(s, id) ==
    IF s.client = None
    THEN s
    ELSE IF id = s.client[1]
         THEN [s EXCEPT !.client = None, !.visible = FALSE]
         ELSE s

(***************************************************************************)
(* The state machine.                                                      *)
(***************************************************************************)
Self ==
    [client |-> client, pending |-> pending, visible |-> visible,
     anchor |-> anchor, w |-> w, h |-> h, calls |-> <<>>, spawns |-> spawns]

OverlayState == [client |-> client, pending |-> pending, visible |-> visible]

Commit(s, op, id, screen) ==
    /\ client' = s.client
    /\ pending' = s.pending
    /\ visible' = s.visible
    /\ calls' = s.calls
    /\ spawns' = s.spawns
    /\ last' = [op |-> op, id |-> id, screen |-> screen, pre |-> OverlayState]
    /\ UNCHANGED <<anchor, w, h, geo>>

\* what geo holds once Anchor::new and Scratchpad::new have returned
Constructed(a, fw, fh) ==
    [stage |-> "constructed",
     anchor_args |-> << <<a.horizontal, a.vertical, a.offset>> >>,
     frac_args |-> << <<fw, fh>> >>,
     screen |-> None, outcome |-> "", region |-> NoRegion]

Init ==
    /\ client = None
    /\ pending = FALSE
    /\ visible = FALSE
    /\ anchor \in { a \in Anchors : ~AnchorNewPanics(a.horizontal, a.vertical) }
    /\ w \in Fractions
    /\ h \in Fractions
    /\ ~ScratchpadNewPanics(w, h)
    /\ calls = <<>>
    /\ spawns = 0
    /\ last = [op |-> "new", id |-> None, screen |-> None,
               pre |-> [client |-> None, pending |-> FALSE, visible |-> FALSE]]
    /\ geo = Constructed(anchor, w, h)

Toggle ==
    \E active \in ActiveScreenIndices :
        /\ client = None => spawns < MaxSpawns
        /\ Commit(toggle_client(Self, active), "toggle", None, Some(active))

NewClient ==
    \E id \in WinId, active \in ActiveScreenIndices :
        Commit(new_client(Self, id, active), "new_client", Some(id), Some(active))

RemoveClient ==
    \E id \in WinId :
        Commit(remove_client(Self, id), "remove_client", Some(id), None)

LayoutApplied ==
    \E screen_index \in ScreenIndices :
        Commit(layout_applied(Self, screen_index), "layout_applied", None,
               Some(screen_index))

Next == Toggle \/ NewClient \/ RemoveClient \/ LayoutApplied

Spec == Init /\ [][Next]_vars

(***************************************************************************)
(* The constructors and get_position on their own: Anchor::new, then       *)
(* Scratchpad::new, then get_position on any screen, for arguments that    *)
(* include the ones the constructors reject.                               *)
(***************************************************************************)
NaN == [num |-> 0, den |-> 0]

FractionInputs ==
    Fractions \cup { [num |-> 3, den |-> 2], [num |-> 0 - 1, den |-> 2], NaN }

\* screen regions handed to get_position; the last is wider than f32 is exact
GeomScreens ==
    { Screens[i] : i \in DOMAIN Screens } \cup { Region(0, 0, 16777219, 800) }

GeomInit ==
    /\ client = None
    /\ pending = FALSE
    /\ visible = FALSE
    /\ anchor = [horizontal |-> "Center", vertical |-> "Center", offset |-> <<0, 0>>]
    /\ w = [num |-> 0, den |-> 1]
    /\ h = [num |-> 0, den |-> 1]
    /\ calls = <<>>
    /\ spawns = 0
    /\ last = [op |-> "new", id |-> None, screen |-> None,
               pre |-> [client |-> None, pending |-> FALSE, visible |-> FALSE]]
    /\ geo = [stage |-> "start", anchor_args |-> <<>>, frac_args |-> <<>>,
              screen |-> None, outcome |-> "", region |-> NoRegion]

AnchorNew ==
    \E horizontal \in AnchorPosition, vertical \in AnchorPosition,
       offset \in Offsets :
        /\ geo.stage = "start"
        /\ IF AnchorNewPanics(horizontal, vertical)
           THEN /\ geo' = [geo EXCEPT !.stage = "panicked",
                               !.anchor_args = << <<horizontal, vertical, offset>> >>]
                /\ UNCHANGED anchor
           ELSE /\ geo' = [geo EXCEPT !.stage = "anchored",
                               !.anchor_args = << <<horizontal, vertical, offset>> >>]
                /\ anchor' = [horizontal |-> horizontal, vertical |-> vertical,
                              offset |-> offset]
        /\ UNCHANGED <<client, pending, visible, w, h, calls, spawns, last>>

ScratchpadNew ==
    \E fw \in FractionInputs, fh \in FractionInputs :
        /\ geo.stage = "anchored"
        /\ IF ScratchpadNewPanics(fw, fh)
           THEN /\ geo' = [geo EXCEPT !.stage = "panicked",
                               !.frac_args = << <<fw, fh>> >>]
                /\ UNCHANGED <<client, pending, visible, w, h>>
           ELSE /\ geo' = [geo EXCEPT !.stage = "constructed",
                               !.frac_args = << <<fw, fh>> >>]
                /\ client' = None
                /\ pending' = FALSE
                /\ visible' = FALSE
                /\ w' = fw
                /\ h' = fh
        /\ UNCHANGED <<anchor, calls, spawns, last>>

\* get_position(screen); a subtraction that underflows panics in a build
\* with overflow checks and wraps in one without, and no region of the
\* wrapped build is kept
GetPosition ==
    \E screen \in GeomScreens :
        /\ geo.stage \in {"constructed", "resolved"}
        /\ IF get_position_underflows(anchor, w, h, screen)
           THEN \E outcome \in {"panic", "wrapped"} :
                    geo' = [geo EXCEPT !.stage = "resolved",
                                       !.screen = Some(screen),
                                       !.outcome = outcome,
                                       !.region = NoRegion]
           ELSE geo' = [geo EXCEPT !.stage = "resolved",
                                   !.screen = Some(screen),
                                   !.outcome = "ok",
                                   !.region = << get_position(anchor, w, h, screen) >>]
        /\ UNCHANGED <<client, pending, visible, anchor, w, h, calls, spawns, last>>

GeomNext == AnchorNew \/ ScratchpadNew \/ GetPosition

GeomSpec == GeomInit /\ [][GeomNext]_vars

(***************************************************************************)
(* The four states of the overlay, derived from client/pending/visible.    *)
(***************************************************************************)
IsEmpty(o) == o.client = None /\ ~o.pending
IsPending(o) == o.client = None /\ o.pending
IsHidden(o) == o.client # None /\ ~o.visible
IsVisible(o) == o.client # None /\ o.visible

\* how many times the last handler sent command cmd for window id
Count(cmd, id) ==
    Cardinality({ i \in DOMAIN calls : calls[i].cmd = cmd /\ calls[i].id = id })

\* how many times the last handler sent command cmd at all
CountCmd(cmd) == Cardinality({ i \in DOMAIN calls : calls[i].cmd = cmd })

\* the region the overlay takes on the screen the last handler was given
LastGeometry == get_position(anchor, w, h, Screens[last.screen[1] + 1])

(***************************************************************************)
(* C1: in every reachable state, pending implies that no client is         *)
(* tracked, and visible implies that a client is tracked.                  *)
(***************************************************************************)
C1_StateInvariants ==
    /\ pending => client = None
    /\ visible => client # None

\* a client has just been claimed from Pending and is visible
C1_Witness ==
    /\ last.op = "new_client"
    /\ last.pre.pending
    /\ visible
    /\ client # None

(***************************************************************************)
(* C2: a toggle while Pending sends no spawn and no other command and      *)
(* leaves the state Pending.                                               *)
(***************************************************************************)
C2_ToggleWhilePendingIsNoOp ==
    (last.op = "toggle" /\ IsPending(last.pre))
        => (calls = <<>> /\ IsPending(OverlayState))

(***************************************************************************)
(* C3: a toggle from Empty sends spawn(prog) exactly once and nothing      *)
(* else, and leaves client = None, pending = TRUE, visible = FALSE.        *)
(***************************************************************************)
C3_ToggleFromEmpty ==
    (last.op = "toggle" /\ IsEmpty(last.pre))
        => /\ calls = << SpawnCall(prog) >>
           /\ client = None
           /\ pending
           /\ ~visible

C3_Witness ==
    /\ last.op = "toggle"
    /\ IsEmpty(last.pre)
    /\ CountCmd("spawn") = 1

(***************************************************************************)
(* C4: new_client(id) while Pending ends Visible with id tracked and       *)
(* sends externally_managed(id), show(id) and position(id, region) exactly *)
(* once each, the region being the overlay's place on the active screen.   *)
(***************************************************************************)
C4_NewClientWhilePending ==
    (last.op = "new_client" /\ IsPending(last.pre))
        => /\ client = last.id
           /\ ~pending
           /\ visible
           /\ Count("externally_managed", last.id) = 1
           /\ Count("show", last.id) = 1
           /\ Count("position", last.id) = 1
           /\ Len(calls) = 3
           /\ \A i \in DOMAIN calls :
                 calls[i].cmd = "position" => calls[i].region = << LastGeometry >>

C4_Witness ==
    /\ last.op = "new_client"
    /\ IsPending(last.pre)
    /\ client = last.id
    /\ CountCmd("position") = 1

(***************************************************************************)
(* C5: new_client(id) while not Pending leaves client, pending and visible *)
(* as they were and sends no command.                                      *)
(***************************************************************************)
C5_NewClientWhileNotPending ==
    (last.op = "new_client" /\ ~IsPending(last.pre))
        => (OverlayState = last.pre /\ calls = <<>>)

\* a second window appears while another one is tracked
C5_Witness ==
    /\ last.op = "new_client"
    /\ last.pre.client # None
    /\ last.id # last.pre.client

(***************************************************************************)
(* C6: remove_client(id) for an id that is not the tracked client (or when *)
(* no client is tracked) leaves the three fields as they were and sends no *)
(* command.                                                                *)
(***************************************************************************)
C6_RemoveOtherClient ==
    (last.op = "remove_client" /\ last.id # last.pre.client)
        => (OverlayState = last.pre /\ calls = <<>>)

\* another window is removed while a client is tracked
C6_Witness ==
    /\ last.op = "remove_client"
    /\ last.pre.client # None
    /\ last.id # last.pre.client
    /\ client = last.pre.client

(***************************************************************************)
(* C7: remove_client(id) of the tracked client leaves the state Empty and  *)
(* sends no command, and a toggle taken right after it spawns once and     *)
(* leaves the state Pending, as a toggle from the initial state does.      *)
(***************************************************************************)
RemovedTracked == last.op = "remove_client" /\ last.id = last.pre.client

C7_RemoveTrackedThenToggle ==
    /\ [](RemovedTracked => (IsEmpty(OverlayState) /\ ~visible /\ calls = <<>>))
    /\ [][(RemovedTracked /\ last'.op = "toggle")
            => /\ calls' = << SpawnCall(prog) >>
               /\ spawns' = spawns + 1
               /\ client' = None /\ pending' /\ ~visible']_vars

\* a toggle from Empty after an earlier spawn: the client was claimed and removed
C7_Witness ==
    /\ last.op = "toggle"
    /\ IsEmpty(last.pre)
    /\ spawns = 2
    /\ pending

(***************************************************************************)
(* C8: while a client is tracked no handler spawns: the spawn count stays  *)
(* what it was when the client was claimed.                                *)
(***************************************************************************)
C8_NoSpawnWhileTracked ==
    [][client # None => (spawns' = spawns /\ CountCmd("spawn")' = 0)]_vars

\* a toggle of a tracked client, after exactly one spawn
C8_Witness ==
    /\ last.op = "toggle"
    /\ last.pre.client # None
    /\ client = last.pre.client
    /\ spawns = 1

(***************************************************************************)
(* C9: a toggle from Hidden sends show and position (with the overlay's    *)
(* place on the active screen) for the tracked client, no spawn and no     *)
(* hide, and leaves the state Visible.                                     *)
(***************************************************************************)
C9_ToggleFromHidden ==
    (last.op = "toggle" /\ IsHidden(last.pre))
        => /\ client = last.pre.client
           /\ visible
           /\ ~pending
           /\ Count("show", client) = 1
           /\ Count("position", client) = 1
           /\ Len(calls) = 2
           /\ \A i \in DOMAIN calls :
                 calls[i].cmd = "position" => calls[i].region = << LastGeometry >>

C9_Witness ==
    /\ last.op = "toggle"
    /\ IsHidden(last.pre)
    /\ visible
    /\ CountCmd("show") = 1

(***************************************************************************)
(* C10: a toggle from Visible sends exactly hide(tracked client), keeps    *)
(* the tracked client and leaves the state Hidden.                         *)
(***************************************************************************)
C10_ToggleFromVisible ==
    (last.op = "toggle" /\ IsVisible(last.pre))
        => /\ calls = << HideCall(last.pre.client[1]) >>
           /\ client = last.pre.client
           /\ ~visible
           /\ ~pending

C10_Witness ==
    /\ last.op = "toggle"
    /\ IsVisible(last.pre)
    /\ CountCmd("hide") = 1

(***************************************************************************)
(* C11: layout_applied(screen) in the Visible state sends position (with   *)
(* the overlay's place on that screen) and show for the tracked client and *)
(* leaves client, pending and visible as they were; running it again for   *)
(* the same screen sends the same commands and leaves the same state.      *)
(***************************************************************************)
LayoutAppliedVisible == last.op = "layout_applied" /\ IsVisible(last.pre)

C11_LayoutAppliedReasserts ==
    LayoutAppliedVisible
        => /\ OverlayState = last.pre
           /\ screen_size(last.screen[1]) # None
                => calls = << PositionCall(client[1], LastGeometry),
                              ShowCall(client[1]) >>
           /\ LET again == layout_applied(Self, last.screen[1]) IN
                 /\ again.calls = calls
                 /\ again.client = client
                 /\ again.pending = pending
                 /\ again.visible = visible

C11_Witness ==
    /\ LayoutAppliedVisible
    /\ screen_size(last.screen[1]) # None
    /\ CountCmd("position") = 1
    /\ CountCmd("show") = 1

(***************************************************************************)
(* C12: layout_applied in Empty, Pending or Hidden sends no command and    *)
(* leaves the state as it was.                                             *)
(***************************************************************************)
C12_LayoutAppliedNotVisible ==
    (last.op = "layout_applied" /\ ~IsVisible(last.pre))
        => (calls = <<>> /\ OverlayState = last.pre)

\* a re-layout while the tracked client is hidden
C12_Witness ==
    /\ last.op = "layout_applied"
    /\ IsHidden(last.pre)
    /\ IsHidden(OverlayState)

(***************************************************************************)
(* C13: layout_applied in the Visible state for a screen index the host    *)
(* has no region for sends no position command and leaves the state as it  *)
(* was; the handler completes (the client is still shown).                 *)
(***************************************************************************)
C13_MissingScreenRegion ==
    (LayoutAppliedVisible /\ screen_size(last.screen[1]) = None)
        => /\ CountCmd("position") = 0
           /\ calls = << ShowCall(client[1]) >>
           /\ OverlayState = last.pre

C13_Witness ==
    /\ LayoutAppliedVisible
    /\ screen_size(last.screen[1]) = None
    /\ visible

(***************************************************************************)
(* C17: from Pending, toggle, remove_client and layout_applied all leave   *)
(* the state Pending; only new_client leaves it.                           *)
(***************************************************************************)
C17_PendingUntilNewClient ==
    [][(IsPending(OverlayState) /\ last'.op # "new_client")
          => IsPending(OverlayState')]_vars

\* a handler other than new_client ran in Pending and the state is still Pending
C17_Witness ==
    /\ IsPending(OverlayState)
    /\ IsPending(last.pre)
    /\ last.op \in {"toggle", "remove_client", "layout_applied"}

(***************************************************************************)
(* C18: after every trigger the derived state of the scratchpad (Empty,    *)
(* Pending, Hidden or Visible, with the tracked client) is the one the     *)
(* transition table gives for the derived state before the trigger, so     *)
(* both runs agree from the initial state on.                              *)
(***************************************************************************)
Derived(o) ==
    IF o.client = None
    THEN [name |-> IF o.pending THEN "Pending" ELSE "Empty", win |-> None]
    ELSE [name |-> IF o.visible THEN "Visible" ELSE "Hidden", win |-> o.client]

TableNext(d, op, id) ==
    CASE op = "toggle" ->
            (CASE d.name = "Empty" -> [name |-> "Pending", win |-> None]
               [] d.name = "Pending" -> d
               [] d.name = "Hidden" -> [d EXCEPT !.name = "Visible"]
               [] d.name = "Visible" -> [d EXCEPT !.name = "Hidden"])
      [] op = "new_client" ->
            IF d.name = "Pending" THEN [name |-> "Visible", win |-> id] ELSE d
      [] op = "remove_client" ->
            IF d.name \in {"Hidden", "Visible"} /\ d.win = id
            THEN [name |-> "Empty", win |-> None]
            ELSE d
      [] op = "layout_applied" -> d
      [] op = "new" -> [name |-> "Empty", win |-> None]

C18_FollowsTransitionTable ==
    Derived(OverlayState) = TableNext(Derived(last.pre), last.op, last.id)

\* a toggle from Empty after an earlier spawn: a client was claimed and removed
C18_Witness ==
    /\ last.op = "toggle"
    /\ Derived(last.pre).name = "Empty"
    /\ Derived(OverlayState).name = "Pending"
    /\ spawns = 2

(***************************************************************************)
(* C19: every show, hide and position command is for the client that is    *)
(* tracked when it is sent: never for a window that was not claimed or     *)
(* whose removal has been notified.                                        *)
(***************************************************************************)
C19_CommandsTargetTrackedClient ==
    \A i \in DOMAIN calls :
        calls[i].cmd \in {"show", "hide", "position"}
            => (client # None /\ calls[i].id = client)

\* a show or hide was sent for a tracked client after a second spawn
C19_Witness ==
    /\ spawns = 2
    /\ client # None
    /\ CountCmd("show") + CountCmd("hide") > 0

(***************************************************************************)
(* C20: the tracked client changes only from None to Some(id) in           *)
(* new_client(id) while Pending and from Some(id) to None in               *)
(* remove_client(id); never from one client to another, and never in       *)
(* toggle or layout_applied.                                               *)
(***************************************************************************)
C20_TrackedClientChanges ==
    client # last.pre.client
        => \/ /\ last.op = "new_client"
              /\ IsPending(last.pre)
              /\ client = last.id
           \/ /\ last.op = "remove_client"
              /\ last.pre.client = last.id
              /\ client = None

\* a client is claimed after a second spawn
C20_Witness ==
    /\ last.op = "new_client"
    /\ last.pre.client = None
    /\ client = last.id
    /\ spawns = 2

(***************************************************************************)
(* Helpers for the claims about the constructors and get_position.         *)
(***************************************************************************)
\* the fraction is a number in [0, 1]
InUnitInterval(f) == f.den > 0 /\ 0 <= f.num /\ f.num <= f.den

\* trunc(len * f) on the reals
ExactScale(len, f) == (len * f.num) \div f.den

\* the region of section 4.1, on the reals
ExpectedRegion(a, fw, fh, screen) ==
    LET ew == ExactScale(screen.w, fw)
        eh == ExactScale(screen.h, fh)
        ex == (CASE a.horizontal = "Left" -> screen.x
                 [] a.horizontal = "Right" -> screen.x + screen.w - ew
                 [] a.horizontal = "Center" -> screen.x + (screen.w - ew) \div 2)
              + a.offset[1]
        ey == (CASE a.vertical = "Top" -> screen.y
                 [] a.vertical = "Bottom" -> screen.y + screen.h - eh
                 [] a.vertical = "Center" -> screen.y + (screen.h - eh) \div 2)
              + a.offset[2]
    IN  Region(ex, ey, ew, eh)

(***************************************************************************)
(* C14: for a valid anchor with zero offset and fractions in [0, 1], on    *)
(* every screen, no subtraction of get_position underflows and the region  *)
(* it returns lies inside the screen.                                      *)
(***************************************************************************)
C14_RegionInsideScreen ==
    (/\ geo.stage = "resolved"
     /\ anchor.offset = <<0, 0>>
     /\ InUnitInterval(w)
     /\ InUnitInterval(h))
        => /\ geo.outcome = "ok"
           /\ LET r == geo.region[1]
                  sc == geo.screen[1]
              IN  /\ r.x >= sc.x
                  /\ r.y >= sc.y
                  /\ r.x + r.w <= sc.x + sc.w
                  /\ r.y + r.h <= sc.y + sc.h

(***************************************************************************)
(* C15: get_position returns w = trunc(sw * widthFraction),                *)
(* h = trunc(sh * heightFraction), and x, y as the anchor says plus the    *)
(* offset; in particular (100, 80, 800, 640) for Center/Center, no offset, *)
(* fractions 0.8 on (0, 0, 1000, 800), and (10, 5, 500, 400) for Left/Top, *)
(* offset (10, 5), fractions 0.5 on the same screen.                       *)
(***************************************************************************)
C15_Examples ==
    (geo.stage = "resolved" /\ geo.screen = Some(Region(0, 0, 1000, 800)))
        => /\ (/\ anchor = [horizontal |-> "Center", vertical |-> "Center",
                            offset |-> <<0, 0>>]
               /\ w = [num |-> 4, den |-> 5]
               /\ h = [num |-> 4, den |-> 5])
                  => geo.region = << Region(100, 80, 800, 640) >>
           /\ (/\ anchor = [horizontal |-> "Left", vertical |-> "Top",
                            offset |-> <<10, 5>>]
               /\ w = [num |-> 1, den |-> 2]
               /\ h = [num |-> 1, den |-> 2])
                  => geo.region = << Region(10, 5, 500, 400) >>

C15_GetPositionFormula ==
    /\ (geo.stage = "resolved" /\ InUnitInterval(w) /\ InUnitInterval(h))
          => /\ geo.outcome = "ok"
             /\ geo.region = << ExpectedRegion(anchor, w, h, geo.screen[1]) >>
    /\ C15_Examples

(***************************************************************************)
(* C16: Anchor::new fails exactly when horizontal is Top or Bottom or      *)
(* vertical is Left or Right, Scratchpad::new fails exactly when a         *)
(* fraction is not in [0, 1], and a scratchpad that was constructed starts *)
(* with no client, not pending and not visible.                            *)
(***************************************************************************)
C16_ConstructionFailsIffInvalid ==
    /\ geo.anchor_args # <<>>
          => ((geo.stage = "panicked" /\ geo.frac_args = <<>>)
                <=> \/ geo.anchor_args[1][1] \in {"Top", "Bottom"}
                    \/ geo.anchor_args[1][2] \in {"Left", "Right"})
    /\ geo.frac_args # <<>>
          => (geo.stage = "panicked"
                <=> ~(/\ InUnitInterval(geo.frac_args[1][1])
                      /\ InUnitInterval(geo.frac_args[1][2])))
    /\ geo.stage = "constructed"
          => (client = None /\ ~pending /\ ~visible)

====
